---- MODULE Spec2Model ----
(***************************************************************************)
(* Alert correlation engine of alert-manager-dev: the greedy one-to-one    *)
(* matching of monitoring (Grafana) alerts with incident (JSM) records in  *)
(* AlertMatchingService.match_grafana_with_jsm, and the reconciliation of  *)
(* the match results with the persisted Alert rows in                      *)
(* AlertService.sync_alerts.                                               *)
(*                                                                         *)
(* Representation.  Grafana alert ids and JSM alert ids are numbered       *)
(* 1..n; 0 stands for a missing id (None or '').  A confidence c in [0,1]  *)
(* is the integer c * Scale.  Null is the None of a string column.  An     *)
(* Optional[Dict] is a sequence of length 0 (None) or 1.                   *)
(***************************************************************************)
EXTENDS Integers, Sequences, FiniteSets, TLC

\* ---------------------------------------------------------------- bounds
MaxAlerts == 2          \* length of the Grafana list given to the matcher
MaxIncidents == 2       \* length of the JSM list given to the matcher
NumAlerts == 2          \* Grafana alerts that exist over the sync cycles
NumIncidents == 1       \* JSM alerts that exist over the sync cycles
MaxCycles == 3          \* sync cycles of a run
MaxHumanActions == 1    \* acknowledge / resolve requests of a run
MaxFaults == 1          \* records of a cycle whose query or flush raises
MaxTime == 6            \* clock ticks of a run of the rate limiters
MaxRequests == 4        \* JSM requests of a run of the rate limiters
MaxNameLen == 4         \* pieces of an alert name
NumEndpoints == 3       \* base urls of PROMETHEUS_API_URLS
NumJobNames == 3        \* job names of the cron configurations
NumCronExpressions == 2 \* cron expressions a request can carry

\* ------------------------------------------------------ program constants
Scale == 100                                  \* confidence 1.0
ALERT_MATCH_CONFIDENCE_THRESHOLD == 70
ALERT_MATCH_HIGH_CONFIDENCE_THRESHOLD == 85
ALERT_MATCH_MANUAL_REVIEW_THRESHOLD == 60

Null == "null"

VARIABLES
    pc,                 \* position of the running handler ("idle": none runs)
    autoflush,          \* flush mode of the Session that SessionLocal() builds
    db,                 \* the committed alerts table: alert_id -> row
    sess,               \* the Session of the running cycle: objs (the objects
                        \* in memory), rows (what has been flushed) and
                        \* broken (a flush failed: the transaction is over)
    active_grafana_alert_ids,
    processed_jsm_ids,
    close_log,          \* the close_jsm_alert calls of the cycle, in order
    last_event,         \* how the last handler ended
    cycles,             \* sync cycles started so far
    human_actions,      \* acknowledge / resolve requests handled so far
    grafana_alerts,     \* the Grafana alerts of the call / cycle, in input order
    jsm_alerts,         \* the JSM alerts of the call / cycle, in input order
    scores,             \* scores[i][j]: what calculate_match_confidence returns
                        \* for (grafana_alerts[i], jsm_alerts[j])
    matched_alerts,     \* the list match_grafana_with_jsm returns
    running,            \* running[t]: where the sync cycle started by trigger t is
    now,                \* time.time(), in ticks
    last_request_time,  \* last_request_time of each JSMService instance
    limiter,            \* limiter[s]: the _rate_limit call in progress on s
    request_times,      \* when each request to JSM was let through, in order
    call_args,          \* the arguments of the helper function being called
    call_result,        \* what the helper function returned
    endpoint_health,    \* endpoint_health of the PrometheusService: base_url -> info
    last_health_check,  \* last_health_check of the PrometheusService
    cron_configs,       \* the cron_configs table: job_name -> row
    scheduler_jobs      \* the jobs of the BackgroundScheduler: job id -> cron trigger

cycle_vars == <<grafana_alerts, jsm_alerts, scores, matched_alerts,
                active_grafana_alert_ids, processed_jsm_ids, close_log>>
sync_vars == <<pc, autoflush, db, sess, last_event, cycles, human_actions, cycle_vars>>
trigger_vars == <<running>>
rate_vars == <<now, last_request_time, limiter, request_times>>
pure_vars == <<call_args, call_result>>
prometheus_vars == <<endpoint_health, last_health_check>>
cron_vars == <<cron_configs, scheduler_jobs>>
aux_vars == <<trigger_vars, rate_vars, pure_vars, prometheus_vars, cron_vars>>
vars == <<sync_vars, aux_vars>>

\* who starts sync cycles: the POST /sync route, run by the event loop, and
\* the cron jobs of the scheduler, each run by a thread of its pool
Triggers == {"post_sync", "job_alert-sync", "job_second"}

\* the JSMService instances that send requests: the one of the AlertService
\* of routes/alerts.py and the one of the AlertService of the scheduler
Instances == {"routes", "scheduler"}

\* min_request_interval, in ticks
MinRequestInterval == 2

\* the callers and the rate limiters at rest
AuxInit ==
    /\ running = [t \in Triggers |-> "idle"]
    /\ now = MinRequestInterval
    /\ last_request_time = [s \in Instances |-> 0]
    /\ limiter = [s \in Instances |-> [state |-> "ready", wake |-> 0]]
    /\ request_times = <<>>
    /\ endpoint_health = <<>>
    /\ last_health_check = Null
    /\ cron_configs = <<>>
    /\ scheduler_jobs = <<>>

\* no helper function is being checked on its own
NoCall == call_args = <<>> /\ call_result = <<>>

\* ---------------------------------------------------------------- matcher

\* AlertMatchingService.__init__: confidence_threshold or settings / 100.0
\* (an argument of None or 0 falls back to the setting).
ConfidenceThreshold(arg) ==
    IF arg # 0 THEN arg ELSE (ALERT_MATCH_CONFIDENCE_THRESHOLD * Scale) \div 100

\* AlertService.__init__ constructs AlertMatchingService() without argument.
confidence_threshold == ConfidenceThreshold(0)
high_confidence_threshold == (ALERT_MATCH_HIGH_CONFIDENCE_THRESHOLD * Scale) \div 100
manual_review_threshold == (ALERT_MATCH_MANUAL_REVIEW_THRESHOLD * Scale) \div 100

\* _safe_str on an id: None becomes '', which is 0 here as well.
SafeStr(id) == id

\* _determine_match_type(confidence, details)
determine_match_type_cluster_first(confidence, details) ==
    IF confidence >= high_confidence_threshold THEN "high_confidence"
    ELSE IF confidence >= confidence_threshold THEN
        IF details.cluster_method = "exact_match" THEN "cluster_match"
        ELSE IF details.name_method = "exact_match" THEN "exact_name_match"
        ELSE "content_similarity"
    ELSE IF confidence >= manual_review_threshold THEN "manual_review"
    ELSE "low_confidence"
determine_match_type(confidence, details) ==
    IF confidence >= high_confidence_threshold THEN "high_confidence"
    ELSE IF confidence >= confidence_threshold THEN
        IF details.name_method = "exact_match" THEN "exact_name_match"
        ELSE IF details.cluster_method = "exact_match" THEN "cluster_match"
        ELSE "content_similarity"
    ELSE IF confidence >= manual_review_threshold THEN "manual_review"
    ELSE "low_confidence"

\* The results calculate_match_confidence can return for a pair: a confidence
\* and the details _determine_match_type reads.
ScoreResult(c, n, cl) == [confidence |-> c, name_method |-> n, cluster_method |-> cl]

ScoreResults ==
    { ScoreResult(confidence_threshold - 1, "exact_match", "no_jsm_cluster"),
      ScoreResult(confidence_threshold, "sequence_match", "exact_match"),
      ScoreResult(Scale, "exact_match", "exact_match") }

\* line 84: the JSM alert was claimed earlier in this call
IsClaimedNever(jsm_id, used_jsm_alerts) == FALSE
IsClaimed(jsm_id, used_jsm_alerts) == jsm_id \in used_jsm_alerts

\* line 90: the candidate replaces the best one so far
IsBetterStrictThreshold(confidence, best_confidence) ==
    confidence > best_confidence /\ confidence > confidence_threshold
IsBetterAnyAccepted(confidence, best_confidence) ==
    confidence >= confidence_threshold
IsBetterOrEqual(confidence, best_confidence) ==
    confidence >= best_confidence /\ confidence >= confidence_threshold
IsBetter(confidence, best_confidence) ==
    confidence > best_confidence /\ confidence >= confidence_threshold

\* lines 77-97: the scan of one Grafana alert over the JSM alerts; best is the
\* index of best_match (0: None), best_confidence starts at 0.0.
RECURSIVE BestMatch(_, _, _, _, _, _)
BestMatch(row, jsm, used_jsm_alerts, j, best, best_confidence) ==
    IF j > Len(jsm) THEN best
    ELSE IF IsClaimed(SafeStr(jsm[j].id), used_jsm_alerts)
         THEN BestMatch(row, jsm, used_jsm_alerts, j + 1, best, best_confidence)
    ELSE IF IsBetter(row[j].confidence, best_confidence)
         THEN BestMatch(row, jsm, used_jsm_alerts, j + 1, j, row[j].confidence)
    ELSE BestMatch(row, jsm, used_jsm_alerts, j + 1, best, best_confidence)

NoMatchInfo(grafana_alert) ==
    [grafana_alert |-> grafana_alert, jsm_alert |-> <<>>, jsm_index |-> 0,
     match_type |-> "none", match_confidence |-> 0]

\* lines 68-114: the outer loop, one match_info per Grafana alert
RECURSIVE MatchLoop(_, _, _, _, _, _)
MatchLoop(grafana, jsm, sc, i, used_jsm_alerts, matches) ==
    IF i > Len(grafana) THEN matches
    ELSE LET best == BestMatch(sc[i], jsm, used_jsm_alerts, 1, 0, 0)
         IN IF best # 0
            THEN MatchLoop(grafana, jsm, sc, i + 1,
                    used_jsm_alerts \cup {SafeStr(jsm[best].id)},
                    Append(matches,
                        [grafana_alert |-> grafana[i],
                         jsm_alert |-> <<jsm[best]>>,
                         jsm_index |-> best,
                         match_type |-> determine_match_type(sc[i][best].confidence, sc[i][best]),
                         match_confidence |-> sc[i][best].confidence]))
            ELSE MatchLoop(grafana, jsm, sc, i + 1, used_jsm_alerts,
                    Append(matches, NoMatchInfo(grafana[i])))

match_grafana_with_jsm(grafana, jsm, sc) == MatchLoop(grafana, jsm, sc, 1, {}, <<>>)

\* ------------------------------------------------- inputs of the matcher
\* GrafanaService._parse_alert: alert_id is f"{alertname}-{fingerprint}"
GrafanaAlert(a) ==
    [alert_id |-> "alert" \o ToString(a) \o "-fp" \o ToString(a),
     alert_name |-> "alert" \o ToString(a),
     cluster |-> "prod"]

JsmAlert(id, status, acknowledged, owner) ==
    [id |-> id, tinyId |-> id, status |-> status,
     acknowledged |-> acknowledged, owner |-> owner]

\* Sequences of length n over S
SeqsOfLen(S, n) == [1..n -> S]

\* Grafana lists of the matcher: alerts 1..n in order (the matcher never reads
\* the alert itself, only its scores).
MatcherGrafanaLists == { [i \in 1..n |-> GrafanaAlert(i)] : n \in 0..MaxAlerts }

\* JSM lists of the matcher: any ids, repeated or missing (0) ones included.
MatcherJsmLists ==
    UNION { { [j \in 1..n |-> JsmAlert(ids[j], "open", FALSE, Null)] :
                ids \in SeqsOfLen(0..MaxIncidents, n) } : n \in 0..MaxIncidents }

\* the Session SessionLocal() returns, over the committed table
NewSession(table) == [objs |-> table, rows |-> table, broken |-> FALSE]

EmptyTable == [k \in {} |-> 0]

MatchInit ==
    /\ AuxInit
    /\ NoCall
    /\ pc = "match_input"
    /\ autoflush = TRUE
    /\ db = EmptyTable
    /\ sess = NewSession(EmptyTable)
    /\ active_grafana_alert_ids = {}
    /\ processed_jsm_ids = {}
    /\ close_log = <<>>
    /\ last_event = "init"
    /\ cycles = 0
    /\ human_actions = 0
    /\ grafana_alerts \in MatcherGrafanaLists
    /\ jsm_alerts \in MatcherJsmLists
    /\ scores \in [1..Len(grafana_alerts) -> [1..Len(jsm_alerts) -> ScoreResults]]
    /\ matched_alerts = <<>>

RunMatch ==
    /\ UNCHANGED aux_vars
    /\ pc = "match_input"
    /\ matched_alerts' = match_grafana_with_jsm(grafana_alerts, jsm_alerts, scores)
    /\ pc' = "match_done"
    /\ UNCHANGED <<autoflush, db, sess, last_event, cycles, human_actions,
                   grafana_alerts, jsm_alerts, scores,
                   active_grafana_alert_ids, processed_jsm_ids, close_log>>

MatchNext == RunMatch

SpecMatch == MatchInit /\ [][MatchNext]_vars

\* ------------------------------------------------------------ claims C1-C3

HasMatch(m) == Len(m.jsm_alert) > 0

\* ids of the JSM alerts assigned to the alerts before position i
ClaimedBefore(i) ==
    { SafeStr(matched_alerts[p].jsm_alert[1].id) :
        p \in { q \in 1..(i - 1) : HasMatch(matched_alerts[q]) } }

\* the JSM alerts alert i may still take: unclaimed and at or above the threshold
Acceptable(i) ==
    { j \in 1..Len(jsm_alerts) :
        /\ SafeStr(jsm_alerts[j].id) \notin ClaimedBefore(i)
        /\ scores[i][j].confidence >= confidence_threshold }

\* C1: in the result of one call of match_grafana_with_jsm no JSM alert id is
\* the assigned match of two Grafana alerts, and every Grafana alert has one
\* result holding at most one JSM alert.
C1_OneToOne ==
    pc = "match_done" =>
        /\ Len(matched_alerts) = Len(grafana_alerts)
        /\ \A p \in 1..Len(matched_alerts) :
            /\ matched_alerts[p].grafana_alert = grafana_alerts[p]
            /\ Len(matched_alerts[p].jsm_alert) <= 1
        /\ \A p, q \in 1..Len(matched_alerts) :
            (p # q /\ HasMatch(matched_alerts[p]) /\ HasMatch(matched_alerts[q]))
                => SafeStr(matched_alerts[p].jsm_alert[1].id)
                     # SafeStr(matched_alerts[q].jsm_alert[1].id)

\* two alerts matched although the second one scored at or above the
\* threshold on the JSM alert the first one took
C1_Witness ==
    /\ pc = "match_done"
    /\ Len(matched_alerts) = 2
    /\ HasMatch(matched_alerts[1]) /\ HasMatch(matched_alerts[2])
    /\ scores[2][matched_alerts[1].jsm_index].confidence >= confidence_threshold

\* C2: alerts are processed in input order with one result each; the assigned
\* JSM alert has the greatest confidence among the JSM alerts not yet claimed
\* and is at or above the threshold; with no such JSM alert the result is
\* jsm_alert None, match_type 'none', match_confidence 0.
C2_GreedyBest ==
    pc = "match_done" =>
        /\ Len(matched_alerts) = Len(grafana_alerts)
        /\ \A i \in 1..Len(matched_alerts) :
            LET m == matched_alerts[i] IN
            /\ m.grafana_alert = grafana_alerts[i]
            /\ IF Acceptable(i) = {}
               THEN m.jsm_alert = <<>> /\ m.match_type = "none" /\ m.match_confidence = 0
               ELSE /\ m.jsm_index \in Acceptable(i)
                    /\ m.jsm_alert = <<jsm_alerts[m.jsm_index]>>
                    /\ m.match_confidence = scores[i][m.jsm_index].confidence
                    /\ \A j \in Acceptable(i) :
                         scores[i][j].confidence <= m.match_confidence

\* an alert took the better of two acceptable JSM alerts, the better one
\* coming first in the list
C2_Witness ==
    /\ pc = "match_done"
    /\ \E i \in 1..Len(matched_alerts) :
        /\ HasMatch(matched_alerts[i])
        /\ \E j \in Acceptable(i) :
            /\ j > matched_alerts[i].jsm_index
            /\ scores[i][j].confidence < matched_alerts[i].match_confidence
    /\ \E i \in 1..Len(matched_alerts) :
        ~HasMatch(matched_alerts[i]) /\ Len(jsm_alerts) > 0

\* C3: an unclaimed JSM alert whose confidence equals the threshold makes the
\* alert matched (alone, it is the match); an alert whose unclaimed JSM alerts
\* are all below the threshold, one unit below included, gets no match.
C3_ThresholdBoundary ==
    pc = "match_done" =>
        \A i \in 1..Len(matched_alerts) :
            LET m == matched_alerts[i]
                free == { j \in 1..Len(jsm_alerts) :
                            SafeStr(jsm_alerts[j].id) \notin ClaimedBefore(i) }
                at == { j \in free : scores[i][j].confidence = confidence_threshold }
                above == { j \in free : scores[i][j].confidence > confidence_threshold }
            IN /\ at # {} => HasMatch(m)
               /\ (at # {} /\ above = {}) =>
                     m.jsm_index \in at /\ m.match_confidence = confidence_threshold
               /\ (at = {} /\ above = {}) =>
                     ~HasMatch(m) /\ m.match_type = "none" /\ m.match_confidence = 0

\* one alert matched at exactly the threshold, another left unmatched with
\* its only free JSM alert one unit below
C3_Witness ==
    /\ pc = "match_done"
    /\ \E i \in 1..Len(matched_alerts) :
        matched_alerts[i].match_confidence = confidence_threshold
    /\ \E i \in 1..Len(matched_alerts) :
        /\ ~HasMatch(matched_alerts[i])
        /\ \E j \in 1..Len(jsm_alerts) :
            /\ SafeStr(jsm_alerts[j].id) \notin ClaimedBefore(i)
            /\ scores[i][j].confidence = confidence_threshold - 1

\* ------------------------------------------------ the persisted Alert rows

ENABLE_AUTO_CLOSE == TRUE

\* Alert(**grafana_data, grafana_status="active"): the columns the cycle
\* reads or writes; the others (pod, severity, ...) follow alert_name.
NewAlert(alert_id, alert_name, cluster, grafana_status) ==
    [alert_id |-> alert_id, alert_name |-> alert_name, cluster |-> cluster,
     grafana_status |-> grafana_status,
     jsm_alert_id |-> 0, jsm_tiny_id |-> 0, jsm_status |-> Null,
     jsm_acknowledged |-> FALSE, jsm_owner |-> Null,
     match_type |-> Null, match_confidence |-> 0,
     acknowledged_by |-> Null, acknowledged_at |-> Null,
     resolved_by |-> Null, resolved_at |-> Null]

\* JSMService.get_alert_status_info
get_alert_status_info(jsm_data) ==
    [id |-> SafeStr(jsm_data.id), tiny_id |-> SafeStr(jsm_data.tinyId),
     status |-> jsm_data.status, acknowledged |-> jsm_data.acknowledged,
     owner |-> IF jsm_data.owner = "" THEN Null ELSE jsm_data.owner]

\* lines 270-273: JSM shows the alert acknowledged and nobody acknowledged it here
JsmAcknowledgesAlways(alert, jsm_status_info) == jsm_status_info.acknowledged
JsmAcknowledges(alert, jsm_status_info) ==
    jsm_status_info.acknowledged /\ alert.acknowledged_by \in {Null, ""}

\* AlertService._update_jsm_fields
update_jsm_fields(alert, jsm_data, match_info) ==
    LET jsm_status_info == get_alert_status_info(jsm_data)
        ack == JsmAcknowledges(alert, jsm_status_info)
    IN [alert EXCEPT
          !.jsm_alert_id = jsm_status_info.id,
          !.jsm_tiny_id = jsm_status_info.tiny_id,
          !.jsm_status = jsm_status_info.status,
          !.jsm_acknowledged = jsm_status_info.acknowledged,
          !.jsm_owner = jsm_status_info.owner,
          !.match_type = match_info.match_type,
          !.match_confidence = match_info.match_confidence,
          !.acknowledged_by =
              IF ack THEN (IF jsm_status_info.owner # Null
                           THEN jsm_status_info.owner ELSE "JSM User")
              ELSE @,
          !.acknowledged_at = IF ack THEN "jsm_updated_at" ELSE @]

\* lines 193-199: no match for an existing alert
ClearJsmMatch(alert) ==
    [alert EXCEPT !.jsm_alert_id = 0, !.jsm_status = Null,
                  !.match_type = "none", !.match_confidence = 0]

\* AlertService._update_existing_alert
update_existing_alert(alert, grafana_data, jsm_data, match_info) ==
    LET a == [alert EXCEPT !.grafana_status = "active",
                           !.alert_name = grafana_data.alert_name,
                           !.cluster = grafana_data.cluster]
    IN IF Len(jsm_data) > 0 THEN update_jsm_fields(a, jsm_data[1], match_info)
       ELSE ClearJsmMatch(a)

\* AlertService._create_new_alert, up to db.add
create_new_alert(grafana_data, jsm_data, match_info) ==
    LET new_alert == NewAlert(grafana_data.alert_id, grafana_data.alert_name,
                              grafana_data.cluster, "active")
    IN IF Len(jsm_data) > 0 THEN update_jsm_fields(new_alert, jsm_data[1], match_info)
       ELSE [new_alert EXCEPT !.match_type = "none", !.match_confidence = 0]

\* the key without the id check of line 152 and without the prefix
JsmOnlyIdEmpty(jsm_id) == ""

\* f"jsm-only-{jsm_id}"
JsmOnlyId(jsm_id) == "jsm-only-" \o ToString(jsm_id)

\* extract_alert_name_from_jsm(jsm_data) or the message
JsmAlertName(jsm_data) == "jsm-alert-" \o ToString(jsm_data.tinyId)

JsmOnlyMatchInfo == [match_type |-> "jsm_only", match_confidence |-> 0]

\* AlertService._create_jsm_only_alert, up to db.add
create_jsm_only_alert(jsm_data) ==
    update_jsm_fields(
        NewAlert(JsmOnlyId(jsm_data.id), JsmAlertName(jsm_data), Null, "N/A"),
        jsm_data, JsmOnlyMatchInfo)

\* ------------------------------------------------------------ the Session

\* db.flush(): the pending changes reach the transaction's rows
Flush(s) == [s EXCEPT !.rows = s.objs]

\* a db.query(...) flushes first when the Session autoflushes
AutoFlush(s) == IF autoflush THEN Flush(s) ELSE s

\* db.rollback(): the table after the transaction is undone
RollbackKeepsFlushed(committed, s) == s.rows
Rollback(committed, s) == committed

Put(table, row) == (row.alert_id :> row) @@ table

\* --------------------------------------------- sync_alerts, lines 82-118

\* what can go wrong while one record is reconciled: nothing, the query of
\* line 103 raises (no connection could be had: no statement ran), or the
\* db.flush() of line 222 raises
RecordFaults == {"none", "query", "flush"}

FaultChoices(n) ==
    { f \in [1..n -> RecordFaults] :
        Cardinality({ i \in 1..n : f[i] # "none" }) <= MaxFaults }

\* a flush that raises ends the transaction: the Session raises on every
\* later use until db.rollback()
FlushFailed(s) == [s EXCEPT !.broken = TRUE]

\* lines 116-118 and 224-226: the record whose query or flush raised is
\* logged and left out, the loop goes on
RECURSIVE ProcessMatched(_, _, _, _)
ProcessMatched(matches, i, st, faults) ==
    IF i > Len(matches) THEN st
    ELSE
      LET match_info == matches[i]
          grafana_alert == match_info.grafana_alert
          jsm_alert == match_info.jsm_alert
          alert_id == grafana_alert.alert_id
      IN IF alert_id = "" THEN ProcessMatched(matches, i + 1, st, faults)
         ELSE
           LET active == st.active \cup {alert_id}
               processed ==
                   IF Len(jsm_alert) > 0 /\ jsm_alert[1].id # 0
                   THEN st.processed \cup {jsm_alert[1].id} ELSE st.processed
               s == AutoFlush(st.sess)
           IN IF st.sess.broken \/ faults[i] = "query"
              THEN ProcessMatched(matches, i + 1,
                     [sess |-> st.sess, active |-> active, processed |-> processed], faults)
              ELSE IF alert_id \in DOMAIN s.rows
              THEN ProcessMatched(matches, i + 1,
                     [sess |-> [s EXCEPT !.objs[alert_id] =
                                  update_existing_alert(@, grafana_alert, jsm_alert, match_info)],
                      active |-> active, processed |-> processed], faults)
              ELSE IF faults[i] = "flush"
              THEN ProcessMatched(matches, i + 1,
                     [sess |-> FlushFailed(s), active |-> active, processed |-> processed], faults)
              ELSE ProcessMatched(matches, i + 1,
                     [sess |-> Flush([s EXCEPT !.objs =
                                  Put(@, create_new_alert(grafana_alert, jsm_alert, match_info))]),
                      active |-> active, processed |-> processed], faults)

\* --------------------------------------------- sync_alerts, lines 120-129

\* the rows db.query(Alert).filter(Alert.jsm_alert_id == jsm_id) selects
RowsWithJsmId(s, jsm_id) == { k \in DOMAIN s.rows : s.rows[k].jsm_alert_id = jsm_id }

\* line 123: the JSM alert was matched to no Grafana alert in this cycle
IsUnmatchedJsmNever(jsm_id, processed) == FALSE
IsUnmatchedJsm(jsm_id, processed) == jsm_id # 0 /\ jsm_id \notin processed

\* first[jsm_id] is the row .first() returns among those selected
RECURSIVE ProcessJsmOnly(_, _, _, _, _)
ProcessJsmOnly(jsm, j, sess0, processed, first) ==
    IF j > Len(jsm) THEN sess0
    ELSE
      LET jsm_id == jsm[j].id IN
      IF ~IsUnmatchedJsm(jsm_id, processed)
      THEN ProcessJsmOnly(jsm, j + 1, sess0, processed, first)
      ELSE
        LET s == AutoFlush(sess0)
            found == RowsWithJsmId(s, jsm_id)
        IN IF found = {}
           THEN ProcessJsmOnly(jsm, j + 1,
                   [s EXCEPT !.objs = Put(@, create_jsm_only_alert(jsm[j]))],
                   processed, first)
           ELSE LET k == IF first[jsm_id] \in found THEN first[jsm_id]
                         ELSE CHOOSE x \in found : TRUE
                IN ProcessJsmOnly(jsm, j + 1,
                      [s EXCEPT !.objs[k] = update_jsm_fields(@, jsm[j], JsmOnlyMatchInfo)],
                      processed, first)

\* ---------------------------------------------- _mark_resolved_alerts

\* lines 290-293
ResolvedAlerts(s, active_alert_ids) ==
    { k \in DOMAIN s.rows :
        k \notin active_alert_ids /\ s.rows[k].grafana_status = "active" }

\* lines 302-303
ShouldAutoCloseNever(alert) == FALSE
ShouldAutoClose(alert) ==
    alert.jsm_alert_id # 0 /\ alert.jsm_status # "closed" /\ ENABLE_AUTO_CLOSE

\* lines 299-317 for one alert; result is what close_jsm_alert did
MarkResolvedOnSuccessOnly(alert, result) ==
    IF ShouldAutoClose(alert) /\ result # "ok" THEN alert
    ELSE LET a == [alert EXCEPT !.grafana_status = "resolved"]
         IN IF ShouldAutoClose(a)
            THEN [a EXCEPT !.jsm_status = "closed",
                           !.resolved_by = IF @ \in {Null, ""} THEN "Auto-resolved (Grafana)" ELSE @,
                           !.resolved_at = IF a.resolved_by \in {Null, ""} THEN "auto_resolved_at" ELSE @]
            ELSE a
MarkResolvedAlwaysStamps(alert, result) ==
    LET a == [alert EXCEPT !.grafana_status = "resolved"]
    IN IF ShouldAutoClose(a) /\ result = "ok"
       THEN [a EXCEPT !.jsm_status = "closed",
                      !.resolved_by = "Auto-resolved (Grafana)",
                      !.resolved_at = "auto_resolved_at"]
       ELSE a
MarkResolved(alert, result) ==
    LET a == [alert EXCEPT !.grafana_status = "resolved"]
    IN IF ShouldAutoClose(a) /\ result = "ok"
       THEN [a EXCEPT !.jsm_status = "closed",
                      !.resolved_by = IF @ \in {Null, ""} THEN "Auto-resolved (Grafana)" ELSE @,
                      !.resolved_at = IF a.resolved_by \in {Null, ""} THEN "auto_resolved_at" ELSE @]
       ELSE a

\* the loop of lines 298-319 over the selected alerts, in the order the query
\* returns them; st is the objects and the close calls made so far
RECURSIVE MarkResolvedLoop(_, _, _)
MarkResolvedLoop(todo, results, st) ==
    IF todo = {} THEN st
    ELSE LET k == CHOOSE x \in todo : TRUE
             alert == st.objs[k]
         IN MarkResolvedLoop(todo \ {k}, results,
              [objs |-> [st.objs EXCEPT ![k] = MarkResolved(alert, results[k])],
               log |-> IF ShouldAutoClose(alert)
                       THEN Append(st.log, [alert_id |-> k, jsm_alert_id |-> alert.jsm_alert_id,
                                            result |-> results[k]])
                       ELSE st.log])

\* ------------------------------------------- _update_orphaned_jsm_alerts

\* lines 339-340: x or default
OrDefault(x, empty, default) == IF x \in empty THEN default ELSE x

\* line 327: the last JSM alert of the list with that id
RECURSIVE JsmById(_, _, _)
JsmById(jsm, j, jsm_id) ==
    IF j = 0 THEN <<>>
    ELSE IF jsm[j].id = jsm_id THEN <<jsm[j]>>
    ELSE JsmById(jsm, j - 1, jsm_id)

\* lines 335-343 for one alert
RefreshOrphanedSkips(alert, jsm) == alert
RefreshOrphaned(alert, jsm) ==
    LET jsm_data == JsmById(jsm, Len(jsm), alert.jsm_alert_id)
    IN IF alert.jsm_alert_id # 0 /\ Len(jsm_data) > 0
       THEN update_jsm_fields(alert, jsm_data[1],
              [match_type |-> OrDefault(alert.match_type, {Null, ""}, "existing"),
               match_confidence |-> OrDefault(alert.match_confidence, {0}, 100 * Scale)])
       ELSE alert

update_orphaned_jsm_alerts(s, jsm) ==
    LET alerts_with_jsm == { k \in DOMAIN s.rows : s.rows[k].jsm_alert_id # 0 }
    IN [s EXCEPT !.objs = [k \in DOMAIN s.objs |->
            IF k \in alerts_with_jsm THEN RefreshOrphaned(s.objs[k], jsm) ELSE s.objs[k]]]

\* ------------------------------------------------- inputs of a sync cycle

RECURSIVE Ascending(_)
Ascending(S) ==
    IF S = {} THEN <<>>
    ELSE LET lo == CHOOSE x \in S : \A y \in S : x <= y
         IN <<lo>> \o Ascending(S \ {lo})

\* what GrafanaService.get_active_alerts can return (production alerts only)
SyncGrafanaLists ==
    { [i \in 1..Cardinality(S) |-> GrafanaAlert(Ascending(S)[i])] : S \in SUBSET (1..NumAlerts) }

\* what the request of GrafanaService.get_active_alerts meets: the active
\* alerts of Grafana, or a network error
GrafanaResponses ==
    { [failed |-> FALSE, alerts |-> g] : g \in SyncGrafanaLists }
        \cup { [failed |-> TRUE, alerts |-> <<>>] }

\* GrafanaService.get_active_alerts: a RequestException is logged and the
\* empty list returned
get_active_alerts(response) == IF response.failed THEN <<>> ELSE response.alerts

\* the state a fetched JSM alert can be in
JsmSnapshots ==
    { [status |-> "open", acknowledged |-> FALSE, owner |-> Null],
      [status |-> "acked", acknowledged |-> TRUE, owner |-> "ops"],
      [status |-> "closed", acknowledged |-> TRUE, owner |-> Null] }

\* what JSMService.get_jsm_alerts can return: alerts with distinct ids
SyncJsmLists ==
    UNION { { [j \in 1..Cardinality(S) |->
                 JsmAlert(Ascending(S)[j], snap[Ascending(S)[j]].status,
                          snap[Ascending(S)[j]].acknowledged, snap[Ascending(S)[j]].owner)] :
              snap \in [S -> JsmSnapshots] } : S \in SUBSET (1..NumIncidents) }

SyncScoreResults ==
    { ScoreResult(confidence_threshold - 1, "exact_match", "no_jsm_cluster"),
      ScoreResult(Scale, "exact_match", "exact_match") }

AlertIds == { GrafanaAlert(a).alert_id : a \in 1..NumAlerts }
              \cup { JsmOnlyId(j) : j \in 1..NumIncidents }

\* ------------------------------------------------------------ sync_alerts

Init ==
    /\ AuxInit
    /\ NoCall
    /\ pc = "idle"
    /\ autoflush \in BOOLEAN
    /\ db = EmptyTable
    /\ sess = NewSession(EmptyTable)
    /\ grafana_alerts = <<>>
    /\ jsm_alerts = <<>>
    /\ scores = <<>>
    /\ matched_alerts = <<>>
    /\ active_grafana_alert_ids = {}
    /\ processed_jsm_ids = {}
    /\ close_log = <<>>
    /\ last_event = "init"
    /\ cycles = 0
    /\ human_actions = 0

\* the cycle about to run gets what the last handler, a cycle that
\* committed, got from both fetches and from the scoring
SameInputsAgain(g, j, sc) ==
    /\ last_event = "sync_committed"
    /\ g = grafana_alerts /\ j = jsm_alerts /\ sc = scores

\* lines 56-80: a new Session, both fetches and the matching
SyncFetchAndMatch ==
    /\ UNCHANGED aux_vars
    /\ pc = "idle"
    /\ cycles < MaxCycles
    /\ cycles' = cycles + 1
    /\ \E response \in GrafanaResponses, j \in SyncJsmLists :
        LET g == get_active_alerts(response) IN
        \E sc \in [1..Len(g) -> [1..Len(j) -> SyncScoreResults]] :
            /\ grafana_alerts' = g
            /\ jsm_alerts' = j
            /\ scores' = sc
            /\ matched_alerts' = match_grafana_with_jsm(g, j, sc)
            /\ last_event' = IF response.failed THEN "sync_degraded"
                             ELSE IF SameInputsAgain(g, j, sc)
                             THEN "sync_repeated" ELSE "sync_started"
    /\ sess' = NewSession(db)
    /\ active_grafana_alert_ids' = {}
    /\ processed_jsm_ids' = {}
    /\ close_log' = <<>>
    /\ pc' = "process_matched"
    /\ UNCHANGED <<autoflush, db, human_actions>>

\* lines 82-118
SyncProcessMatched ==
    /\ UNCHANGED aux_vars
    /\ pc = "process_matched"
    /\ \E faults \in FaultChoices(Len(matched_alerts)) :
        LET st == ProcessMatched(matched_alerts, 1,
                    [sess |-> sess, active |-> {}, processed |-> {}], faults)
        IN /\ sess' = st.sess
           /\ active_grafana_alert_ids' = st.active
           /\ processed_jsm_ids' = st.processed
    /\ pc' = "process_jsm_only"
    /\ UNCHANGED <<autoflush, db, last_event, cycles, human_actions, grafana_alerts, jsm_alerts, scores,
                   matched_alerts, close_log>>

\* the rows .first() may return for each JSM id (line 124)
FirstChoices(s) ==
    { f \in [1..NumIncidents -> AlertIds \cup {""}] :
        \A j \in 1..NumIncidents :
            IF RowsWithJsmId(s, j) = {} THEN f[j] = ""
            ELSE f[j] \in RowsWithJsmId(s, j) }

\* lines 120-129
SyncProcessJsmOnly ==
    /\ UNCHANGED aux_vars
    /\ pc = "process_jsm_only"
    /\ ~(sess.broken /\ \E j \in 1..Len(jsm_alerts) :
                          IsUnmatchedJsm(jsm_alerts[j].id, processed_jsm_ids))
    /\ \E first \in FirstChoices(AutoFlush(sess)) :
        sess' = ProcessJsmOnly(jsm_alerts, 1, sess, processed_jsm_ids, first)
    /\ pc' = "mark_resolved"
    /\ UNCHANGED <<autoflush, db, last_event, cycles, human_actions, cycle_vars>>

\* lines 131-132: _mark_resolved_alerts; results[k] is what close_jsm_alert
\* does when called for alert k.  On a broken Session the query raises and
\* lines 321-322 absorb it (as lines 349-350 do in the next pass).
SyncMarkResolved ==
    /\ UNCHANGED aux_vars
    /\ pc = "mark_resolved"
    /\ LET s == AutoFlush(sess)
           todo == IF sess.broken THEN {}
                   ELSE ResolvedAlerts(s, active_grafana_alert_ids)
       IN \E results \in [todo -> {"ok", "false", "raise"}] :
            /\ \A k \in todo : ~ShouldAutoClose(s.objs[k]) => results[k] = "ok"
            /\ LET st == MarkResolvedLoop(todo, results, [objs |-> s.objs, log |-> <<>>])
               IN /\ sess' = [s EXCEPT !.objs = st.objs]
                  /\ close_log' = st.log
    /\ pc' = "update_orphaned"
    /\ UNCHANGED <<autoflush, db, last_event, cycles, human_actions, grafana_alerts, jsm_alerts, scores,
                   matched_alerts, active_grafana_alert_ids, processed_jsm_ids>>

\* lines 134-135
SyncUpdateOrphaned ==
    /\ UNCHANGED aux_vars
    /\ pc = "update_orphaned"
    /\ sess' = IF sess.broken THEN sess
               ELSE update_orphaned_jsm_alerts(AutoFlush(sess), jsm_alerts)
    /\ pc' = "commit"
    /\ UNCHANGED <<autoflush, db, last_event, cycles, human_actions, cycle_vars>>

\* line 137: db.commit(), which raises on a broken Session (SyncFails)
SyncCommit ==
    /\ UNCHANGED aux_vars
    /\ pc = "commit"
    /\ ~sess.broken
    /\ db' = Flush(sess).objs
    /\ sess' = NewSession(db')
    /\ pc' = "idle"
    /\ last_event' = "sync_committed"
    /\ UNCHANGED <<autoflush, cycles, human_actions, cycle_vars>>

\* lines 145-148: an exception escapes a fetch or the matching (pc "idle"),
\* a query of lines 120-129, or the commit
SyncFails ==
    /\ UNCHANGED aux_vars
    /\ pc \in {"idle", "process_jsm_only", "commit"}
    /\ pc = "idle" => cycles < MaxCycles
    /\ cycles' = IF pc = "idle" THEN cycles + 1 ELSE cycles
    /\ db' = Rollback(db, sess)
    /\ sess' = NewSession(db')
    /\ pc' = "idle"
    /\ last_event' = "sync_raised"
    /\ IF pc = "idle"
       THEN /\ grafana_alerts' = <<>> /\ jsm_alerts' = <<>> /\ scores' = <<>>
            /\ matched_alerts' = <<>> /\ active_grafana_alert_ids' = {}
            /\ processed_jsm_ids' = {} /\ close_log' = <<>>
       ELSE UNCHANGED cycle_vars
    /\ UNCHANGED <<autoflush, human_actions>>

\* ---------------------------------------------------------- human actions

HumanUser == "alice"

\* AlertService.acknowledge_alerts for one alert; result is what
\* acknowledge_jsm_alert does
acknowledge_alert(alert, result) ==
    IF alert.jsm_alert_id # 0 /\ result = "raise" THEN alert
    ELSE LET a == IF alert.jsm_alert_id # 0 /\ result = "ok"
                  THEN [alert EXCEPT !.jsm_status = "acked", !.jsm_acknowledged = TRUE]
                  ELSE alert
         IN [a EXCEPT !.acknowledged_by = HumanUser, !.acknowledged_at = "human_time"]

\* AlertService.resolve_alerts for one alert; result is what close_jsm_alert does
resolve_alert(alert, result) ==
    IF alert.jsm_alert_id # 0 /\ result = "raise" THEN alert
    ELSE LET a == IF alert.jsm_alert_id # 0 /\ result = "ok"
                  THEN [alert EXCEPT !.jsm_status = "closed"]
                  ELSE alert
         IN [a EXCEPT !.grafana_status = "resolved",
                      !.resolved_by = HumanUser, !.resolved_at = "human_time"]

RemoteResults(alert) == IF alert.jsm_alert_id # 0 THEN {"ok", "false", "raise"} ELSE {"ok"}

Acknowledge ==
    /\ UNCHANGED aux_vars
    /\ pc = "idle"
    /\ human_actions < MaxHumanActions
    /\ \E k \in DOMAIN db : \E result \in RemoteResults(db[k]) :
        db' = [db EXCEPT ![k] = acknowledge_alert(@, result)]
    /\ sess' = NewSession(db')
    /\ last_event' = "acknowledged"
    /\ human_actions' = human_actions + 1
    /\ grafana_alerts' = <<>> /\ jsm_alerts' = <<>> /\ scores' = <<>>
    /\ matched_alerts' = <<>> /\ active_grafana_alert_ids' = {}
    /\ processed_jsm_ids' = {} /\ close_log' = <<>>
    /\ UNCHANGED <<pc, autoflush, cycles>>

Resolve ==
    /\ UNCHANGED aux_vars
    /\ pc = "idle"
    /\ human_actions < MaxHumanActions
    /\ \E k \in DOMAIN db : \E result \in RemoteResults(db[k]) :
        db' = [db EXCEPT ![k] = resolve_alert(@, result)]
    /\ sess' = NewSession(db')
    /\ last_event' = "resolved"
    /\ human_actions' = human_actions + 1
    /\ grafana_alerts' = <<>> /\ jsm_alerts' = <<>> /\ scores' = <<>>
    /\ matched_alerts' = <<>> /\ active_grafana_alert_ids' = {}
    /\ processed_jsm_ids' = {} /\ close_log' = <<>>
    /\ UNCHANGED <<pc, autoflush, cycles>>

Next ==
    \/ SyncFetchAndMatch
    \/ SyncProcessMatched
    \/ SyncProcessJsmOnly
    \/ SyncMarkResolved
    \/ SyncUpdateOrphaned
    \/ SyncCommit
    \/ SyncFails
    \/ Acknowledge
    \/ Resolve

Spec == Init /\ [][Next]_vars

\* ----------------------------------------------------------- claims C4-C10

Committed == pc = "idle" /\ last_event = "sync_committed"

\* the step that commits a cycle, and the step in which a cycle fails
CommitStep == pc = "commit" /\ pc' = "idle" /\ last_event' = "sync_committed"
FailStep == last_event' = "sync_raised" /\ pc' = "idle"
            /\ (pc # "idle" \/ cycles' # cycles)

\* positions of the fetched JSM alerts no Grafana alert was matched with
UnassignedJsm ==
    { j \in 1..Len(jsm_alerts) :
        ~\E i \in 1..Len(matched_alerts) :
            HasMatch(matched_alerts[i]) /\ matched_alerts[i].jsm_index = j }

\* positions of the Grafana alerts of the cycle that found no JSM alert
UnmatchedGrafana == { i \in 1..Len(matched_alerts) : ~HasMatch(matched_alerts[i]) }

CarriersOf(table, jsm_id) == { k \in DOMAIN table : table[k].jsm_alert_id = jsm_id }

\* C4: after a cycle that commits, every fetched JSM alert that was assigned
\* to no Grafana alert has a persisted row carrying its id.
C4_UnassignedJsmPersisted ==
    Committed => \A j \in UnassignedJsm : CarriersOf(db, jsm_alerts[j].id) # {}

\* the first cycle synthesized the row of an unassigned JSM alert
C4_Witness ==
    /\ Committed
    /\ \E j \in UnassignedJsm :
        /\ JsmOnlyId(jsm_alerts[j].id) \in DOMAIN db
        /\ db[JsmOnlyId(jsm_alerts[j].id)].jsm_alert_id = jsm_alerts[j].id
    /\ Len(grafana_alerts) > 0

\* C5: no step of a sync cycle changes the acknowledged_by / acknowledged_at
\* or the resolved_by / resolved_at a human action has set.
C5_HumanFieldsSticky ==
    [][ (pc # "idle" \/ pc' # "idle") =>
          \A k \in DOMAIN db :
            /\ k \in DOMAIN db'
            /\ db[k].acknowledged_by = HumanUser =>
                 /\ db'[k].acknowledged_by = HumanUser
                 /\ db'[k].acknowledged_at = db[k].acknowledged_at
            /\ db[k].resolved_by = HumanUser =>
                 /\ db'[k].resolved_by = HumanUser
                 /\ db'[k].resolved_at = db[k].resolved_at ]_vars

\* a cycle committed in which an alert a human acknowledged was active and
\* found no JSM alert, while a JSM alert shown acknowledged was fetched
C5_Witness ==
    /\ Committed
    /\ \E i \in UnmatchedGrafana :
        LET k == matched_alerts[i].grafana_alert.alert_id IN
        /\ k \in DOMAIN db
        /\ db[k].acknowledged_by = HumanUser
        /\ db[k].acknowledged_at = "human_time"
        /\ db[k].match_type = "none"
    /\ \E j \in 1..Len(jsm_alerts) : jsm_alerts[j].acknowledged

CloseCalls(log, k) == Cardinality({ n \in 1..Len(log) : log[n].alert_id = k })

C7_JsmOnlyRowCommitted ==
    [][ CommitStep =>
          \A j \in UnassignedJsm :
            LET jsm_id == jsm_alerts[j].id
                k == JsmOnlyId(jsm_id)
            IN (jsm_id # 0 /\ CarriersOf(db, jsm_id) = {}) =>
                 /\ k \notin DOMAIN db
                 /\ k \in DOMAIN db'
                 /\ CarriersOf(db', jsm_id) = {k}
                 /\ db'[k].cluster = Null
                 /\ db'[k].grafana_status = "N/A"
                 /\ db'[k].match_type = "jsm_only"
                 /\ db'[k].match_confidence = 0
                 /\ db'[k].match_confidence \in 0..Scale ]_vars

\* C8: after a committed cycle the row of an active Grafana alert that found
\* no JSM alert has no JSM-side data, match_type 'none', match_confidence 0.
C8_UnmatchedRowHasNoJsmData ==
    Committed =>
        \A i \in UnmatchedGrafana :
            LET k == matched_alerts[i].grafana_alert.alert_id IN
            /\ k \in DOMAIN db
            /\ db[k].jsm_alert_id = 0
            /\ db[k].jsm_status = Null
            /\ db[k].jsm_tiny_id = 0
            /\ db[k].jsm_owner = Null
            /\ db[k].jsm_acknowledged = FALSE
            /\ db[k].match_type = "none"
            /\ db[k].match_confidence = 0

C11_NoPartialCommit ==
    [][ CommitStep =>
          \A i \in 1..Len(matched_alerts) :
            LET k == matched_alerts[i].grafana_alert.alert_id IN
            /\ k \in DOMAIN db'
            /\ HasMatch(matched_alerts[i]) =>
                 db'[k].jsm_alert_id = matched_alerts[i].jsm_alert[1].id ]_vars

\* lines 189-191: what calculate_match_confidence returns when scoring the
\* pair raised: 0.0 and details holding only the error
ScoreOnErrorFull == ScoreResult(Scale, "error", "error")
ScoreOnError == ScoreResult(0, "error", "error")

IsErrorPair(sc) == sc.name_method = "error"

\* scorings in which pairs may raise
ErrorScoreResults ==
    { ScoreOnError,
      ScoreResult(confidence_threshold, "sequence_match", "exact_match"),
      ScoreResult(Scale, "exact_match", "exact_match") }

ErrorMatchInit ==
    /\ AuxInit
    /\ NoCall
    /\ pc = "match_input"
    /\ autoflush = TRUE
    /\ db = EmptyTable
    /\ sess = NewSession(EmptyTable)
    /\ active_grafana_alert_ids = {}
    /\ processed_jsm_ids = {}
    /\ close_log = <<>>
    /\ last_event = "init"
    /\ cycles = 0
    /\ human_actions = 0
    /\ grafana_alerts \in MatcherGrafanaLists
    /\ jsm_alerts \in MatcherJsmLists
    /\ scores \in [1..Len(grafana_alerts) -> [1..Len(jsm_alerts) -> ErrorScoreResults]]
    /\ matched_alerts = <<>>

SpecScoreError == ErrorMatchInit /\ [][MatchNext]_vars

\* the pairs of alert i that did not raise, are unclaimed and reach the threshold
AcceptableScored(i) ==
    { j \in 1..Len(jsm_alerts) :
        /\ ~IsErrorPair(scores[i][j])
        /\ SafeStr(jsm_alerts[j].id) \notin ClaimedBefore(i)
        /\ scores[i][j].confidence >= confidence_threshold }

\* C12: a pair whose scoring raised is never the match of its alert, and each
\* alert gets what the pairs that did not raise give it: a best one among the
\* unclaimed ones at or above the threshold, or the no-match result when
\* there is none.
C12_ScoringErrorSkipped ==
    pc = "match_done" =>
        /\ Len(matched_alerts) = Len(grafana_alerts)
        /\ \A i \in 1..Len(matched_alerts) :
            LET m == matched_alerts[i] IN
            /\ m.grafana_alert = grafana_alerts[i]
            /\ HasMatch(m) =>
                 /\ ~IsErrorPair(scores[i][m.jsm_index])
                 /\ m.jsm_index \in AcceptableScored(i)
                 /\ m.match_confidence = scores[i][m.jsm_index].confidence
                 /\ \A j \in AcceptableScored(i) :
                        scores[i][j].confidence <= m.match_confidence
            /\ ~HasMatch(m) =>
                 /\ AcceptableScored(i) = {}
                 /\ m.match_type = "none" /\ m.match_confidence = 0

\* the first alert has a pair that raised and is matched with another JSM
\* alert, and a later alert is matched as well
C12_Witness ==
    /\ pc = "match_done"
    /\ Len(matched_alerts) >= 2
    /\ \E j \in 1..Len(jsm_alerts) : IsErrorPair(scores[1][j])
    /\ HasMatch(matched_alerts[1])
    /\ \E i \in 2..Len(matched_alerts) :
        /\ HasMatch(matched_alerts[i])
        /\ \E j \in 1..Len(jsm_alerts) : IsErrorPair(scores[i][j])

\* ------------------------------------------------ the callers of sync_alerts

\* the steps of sync_alerts between which another thread can run
NextPosition(p) ==
    CASE p = "fetch_grafana" -> "fetch_jsm"
      [] p = "fetch_jsm" -> "reconcile"
      [] p = "reconcile" -> "commit"
      [] p = "commit" -> "idle"

\* the scheduler fires a job that is not running (max_instances is 1 for each
\* job id), or a POST /sync request reaches the route: nothing looks at the
\* cycles the other triggers have in flight
StartCycle(t) ==
    /\ running[t] = "idle"
    /\ running' = [running EXCEPT ![t] = "fetch_grafana"]
    /\ UNCHANGED <<sync_vars, rate_vars, pure_vars, prometheus_vars, cron_vars>>

StepCycle(t) ==
    /\ running[t] # "idle"
    /\ running' = [running EXCEPT ![t] = NextPosition(@)]
    /\ UNCHANGED <<sync_vars, rate_vars, pure_vars, prometheus_vars, cron_vars>>

TriggerNext == \E t \in Triggers : StartCycle(t) \/ StepCycle(t)

SpecTriggers == Init /\ [][TriggerNext]_vars

InFlight == { t \in Triggers : running[t] # "idle" }

\* C13: at most one sync cycle is in flight at any time.
C13_OneCycleInFlight == Cardinality(InFlight) <= 1

\* ------------------------------------------------- JSMService._rate_limit

\* lines 38-46 on instance s, up to the sleep: the request goes through now,
\* or the thread sleeps for min_request_interval - time_since_last
RateLimit(s) ==
    /\ limiter[s].state = "ready"
    /\ Len(request_times) < MaxRequests
    /\ LET current_time == now
           time_since_last == current_time - last_request_time[s]
       IN IF time_since_last < MinRequestInterval
          THEN /\ limiter' = [limiter EXCEPT ![s] =
                    [state |-> "sleeping",
                     wake |-> current_time + (MinRequestInterval - time_since_last)]]
               /\ UNCHANGED <<last_request_time, request_times>>
          ELSE /\ last_request_time' = [last_request_time EXCEPT ![s] = now]
               /\ request_times' = Append(request_times, now)
               /\ UNCHANGED limiter
    /\ UNCHANGED <<now, sync_vars, trigger_vars, pure_vars, prometheus_vars, cron_vars>>

\* line 46 after time.sleep returned: the delayed request goes through
WakeUp(s) ==
    /\ limiter[s].state = "sleeping"
    /\ now >= limiter[s].wake
    /\ limiter' = [limiter EXCEPT ![s] = [state |-> "ready", wake |-> 0]]
    /\ last_request_time' = [last_request_time EXCEPT ![s] = now]
    /\ request_times' = Append(request_times, now)
    /\ UNCHANGED <<now, sync_vars, trigger_vars, pure_vars, prometheus_vars, cron_vars>>

Tick ==
    /\ now < MaxTime
    /\ now' = now + 1
    /\ UNCHANGED <<last_request_time, limiter, request_times, sync_vars, trigger_vars, pure_vars, prometheus_vars, cron_vars>>

RateNext == Tick \/ \E s \in Instances : RateLimit(s) \/ WakeUp(s)

SpecRate == Init /\ [][RateNext]_vars

\* C14: any two consecutive requests to JSM are at least min_request_interval
\* apart.
C14_RequestsSpaced ==
    \A n \in 1..(Len(request_times) - 1) :
        request_times[n + 1] - request_times[n] >= MinRequestInterval

\* C15: a cycle that runs right after a committed cycle, on the same Grafana
\* alerts, JSM alerts and scores, computes the same matches and commits every
\* row with the jsm_alert_id, match_type and match_confidence it had.
C15_SecondCycleChangesNothing ==
    [][ /\ (pc = "idle" /\ last_event' = "sync_repeated") =>
            matched_alerts' = matched_alerts
        /\ (CommitStep /\ last_event = "sync_repeated") =>
            \A k \in DOMAIN db :
                /\ k \in DOMAIN db'
                /\ db'[k].jsm_alert_id = db[k].jsm_alert_id
                /\ db'[k].match_type = db[k].match_type
                /\ db'[k].match_confidence = db[k].match_confidence ]_vars

\* ------------------------------------------------ helper functions on their own

\* everything but call_args and call_result at rest
HelperRest ==
    /\ AuxInit
    /\ pc = "call"
    /\ autoflush = TRUE
    /\ db = EmptyTable
    /\ sess = NewSession(EmptyTable)
    /\ grafana_alerts = <<>> /\ jsm_alerts = <<>> /\ scores = <<>>
    /\ matched_alerts = <<>> /\ active_grafana_alert_ids = {}
    /\ processed_jsm_ids = {} /\ close_log = <<>>
    /\ last_event = "init"
    /\ cycles = 0
    /\ human_actions = 0

\* ------------------------------------------------- _normalize_alert_name

\* A name is a sequence of pieces of text: words, a run of one white space
\* character, and punctuation.  "Rule" is a word with an upper-case letter,
\* "!" a character that is neither \w, \s nor '-'.
NamePieces == {"alert", "Rule", "notification", "cpu", " ", "-", ":", "!"}

Names == UNION { [1..n -> NamePieces] : n \in 0..MaxNameLen }

\* name.lower()
Lower(piece) == IF piece = "Rule" THEN "rule" ELSE piece

\* [^\w\s-]: the characters line 470 removes
IsSpecial(piece) == piece \in {":", "!"}

IsWordOrSpace(piece) == ~IsSpecial(piece)

\* line 470
RemoveSpecial(name) == SelectSeq([i \in 1..Len(name) |-> Lower(name[i])], IsWordOrSpace)

\* re.sub(r'\s+', ' ', ...) of line 472
RECURSIVE CollapseSpaces(_)
CollapseSpaces(name) ==
    IF Len(name) < 2 THEN name
    ELSE IF name[1] = " " /\ name[2] = " " THEN CollapseSpaces(Tail(name))
    ELSE <<name[1]>> \o CollapseSpaces(Tail(name))

\* .strip() of line 472
RECURSIVE Strip(_)
Strip(name) ==
    IF name = <<>> THEN name
    ELSE IF name[1] = " " THEN Strip(Tail(name))
    ELSE IF name[Len(name)] = " " THEN Strip(SubSeq(name, 1, Len(name) - 1))
    ELSE name

\* (alert|rule|notification)
IsCommonAffix(piece) == piece \in {"alert", "rule", "notification"}

\* [:\s]
IsColonOrSpace(piece) == piece \in {":", " "}

RECURSIVE DropLeading(_)
DropLeading(name) ==
    IF name # <<>> /\ IsColonOrSpace(name[1]) THEN DropLeading(Tail(name)) ELSE name

RECURSIVE DropTrailing(_)
DropTrailing(name) ==
    IF name # <<>> /\ IsColonOrSpace(name[Len(name)])
    THEN DropTrailing(SubSeq(name, 1, Len(name) - 1)) ELSE name

\* line 474: re.sub(r'^(alert|rule|notification)[:\s]*', '', ...), one match
RemovePrefix(name) ==
    IF name # <<>> /\ IsCommonAffix(name[1]) THEN DropLeading(Tail(name)) ELSE name

\* line 475: re.sub(r'[:\s]*(alert|rule|notification)$', '', ...), one match
RemoveSuffix(name) ==
    IF name # <<>> /\ IsCommonAffix(name[Len(name)])
    THEN DropTrailing(SubSeq(name, 1, Len(name) - 1)) ELSE name

normalize_alert_name(name) ==
    IF name = <<>> THEN <<>>
    ELSE RemoveSuffix(RemovePrefix(Strip(CollapseSpaces(RemoveSpecial(name)))))

NormalizeInit ==
    /\ HelperRest
    /\ call_args \in Names
    /\ call_result = <<>>

\* the name is normalized, and what came out is normalized again
NormalizeTwice ==
    /\ pc = "call"
    /\ pc' = "returned"
    /\ call_result' = [once |-> normalize_alert_name(call_args),
                       twice |-> normalize_alert_name(normalize_alert_name(call_args))]
    /\ UNCHANGED <<call_args, trigger_vars, rate_vars, prometheus_vars, cron_vars, autoflush, db, sess, last_event,
                   cycles, human_actions, cycle_vars>>

SpecNormalize == NormalizeInit /\ [][NormalizeTwice]_vars

\* C16: normalizing a normalized name gives the same name.
C16_NormalizeIdempotent ==
    pc = "returned" => call_result.twice = call_result.once

\* ------------------------------------------------- _determine_match_type

\* every confidence, with the methods the name and the cluster scorer report
MatchTypeCalls ==
    { ScoreResult(c, n, cl) :
        c \in 0..Scale,
        n \in {"exact_match", "sequence_match"},
        cl \in {"exact_match", "no_jsm_cluster"} }

MatchTypeInit ==
    /\ HelperRest
    /\ call_args \in MatchTypeCalls
    /\ call_result = <<>>

\* the label of the scored pair, and what match_grafana_with_jsm records for
\* a Grafana alert whose only candidate is that pair (lines 99-107)
ClassifyPair ==
    /\ pc = "call"
    /\ pc' = "returned"
    /\ call_result' =
         [label |-> determine_match_type(call_args.confidence, call_args),
          recorded |-> match_grafana_with_jsm(
                          <<GrafanaAlert(1)>>, <<JsmAlert(1, "open", FALSE, Null)>>,
                          <<<<call_args>>>>)[1]]
    /\ UNCHANGED <<call_args, trigger_vars, rate_vars, prometheus_vars, cron_vars, autoflush, db, sess, last_event,
                   cycles, human_actions, cycle_vars>>

SpecMatchType == MatchTypeInit /\ [][ClassifyPair]_vars

\* C17: the label follows the band of the confidence: high_confidence from the
\* high threshold up; between the acceptance and the high threshold
\* exact_name_match if the name scorer reports an exact match, else
\* cluster_match if the cluster scorer does, else content_similarity;
\* manual_review between the review and the acceptance threshold;
\* low_confidence below, and a pair labelled low_confidence is not recorded
\* as a match.
C17_MatchTypeBands ==
    pc = "returned" =>
        LET c == call_args.confidence
            label == call_result.label
        IN /\ c >= high_confidence_threshold => label = "high_confidence"
           /\ (confidence_threshold <= c /\ c < high_confidence_threshold) =>
                /\ call_args.name_method = "exact_match" => label = "exact_name_match"
                /\ (call_args.name_method # "exact_match"
                    /\ call_args.cluster_method = "exact_match") => label = "cluster_match"
                /\ (call_args.name_method # "exact_match"
                    /\ call_args.cluster_method # "exact_match") => label = "content_similarity"
           /\ (manual_review_threshold <= c /\ c < confidence_threshold) =>
                label = "manual_review"
           /\ c < manual_review_threshold => label = "low_confidence"
           /\ label = "low_confidence" => ~HasMatch(call_result.recorded)
           /\ HasMatch(call_result.recorded) => call_result.recorded.match_type = label

\* a pair in the middle band whose name and cluster scorers both report an
\* exact match is recorded as exact_name_match
C17_Witness ==
    /\ pc = "returned"
    /\ call_args.confidence < high_confidence_threshold
    /\ call_args.name_method = "exact_match"
    /\ call_args.cluster_method = "exact_match"
    /\ call_result.label = "exact_name_match"
    /\ HasMatch(call_result.recorded)

\* ----------------------------------------- _calculate_severity_similarity

\* severity_groups (lines 267-272), in the order the dict is iterated
SeverityGroupOrder == <<"critical", "warning", "info", "low">>

severity_groups ==
    [critical |-> {"critical", "crit", "p1", "high"},
     warning |-> {"warning", "warn", "p2", "medium"},
     info |-> {"info", "information", "p3", "p5", "low"},
     low |-> {"low", "minor", "p4"}]

\* the severities scored: every keyword, two spellings with capitals, one
\* severity of no group, and "" for a missing one
Severities ==
    UNION {severity_groups[g] : g \in DOMAIN severity_groups}
        \cup {"Critical", "LOW", "unknown", ""}

\* str.lower() on these severities
SeverityLower(severity) ==
    IF severity = "Critical" THEN "critical"
    ELSE IF severity = "LOW" THEN "low"
    ELSE severity

\* lines 275-276
NormalizeSeverity(severity) == IF severity # "" THEN SeverityLower(severity) ELSE "info"

\* the loop of lines 286-290 from group i on: it has no break, so the last
\* group that lists the severity is the one kept
RECURSIVE FindSeverityGroup(_, _, _)
FindSeverityGroup(norm, i, found) ==
    IF i > Len(SeverityGroupOrder) THEN found
    ELSE FindSeverityGroup(norm, i + 1,
            IF norm \in severity_groups[SeverityGroupOrder[i]]
            THEN SeverityGroupOrder[i] ELSE found)

calculate_severity_similarity(grafana_severity, jsm_severity) ==
    LET grafana_norm == NormalizeSeverity(grafana_severity)
        jsm_norm == NormalizeSeverity(jsm_severity)
        grafana_group == FindSeverityGroup(grafana_norm, 1, Null)
        jsm_group == FindSeverityGroup(jsm_norm, 1, Null)
    IN IF grafana_norm = jsm_norm THEN [score |-> Scale, method |-> "exact_match"]
       ELSE IF grafana_group # Null /\ jsm_group # Null THEN
           IF grafana_group = jsm_group THEN [score |-> Scale, method |-> "group_match"]
           ELSE [score |-> (3 * Scale) \div 10, method |-> "different_groups"]
       ELSE [score |-> Scale \div 2, method |-> "unknown_mapping"]

SeverityInit ==
    /\ HelperRest
    /\ call_args \in [grafana_severity : Severities, jsm_severity : Severities]
    /\ call_result = <<>>

ScoreSeverity ==
    /\ pc = "call"
    /\ pc' = "returned"
    /\ call_result' = calculate_severity_similarity(call_args.grafana_severity,
                                                    call_args.jsm_severity)
    /\ UNCHANGED <<call_args, trigger_vars, rate_vars, prometheus_vars, cron_vars, autoflush, db, sess, last_event,
                   cycles, human_actions, cycle_vars>>

SpecSeverity == SeverityInit /\ [][ScoreSeverity]_vars

InSomeSeverityGroup(norm) == \E g \in DOMAIN severity_groups : norm \in severity_groups[g]

InOneSeverityGroup(a, b) ==
    \E g \in DOMAIN severity_groups : a \in severity_groups[g] /\ b \in severity_groups[g]

\* C19: the severity score is 1.0 when the two severities (a missing one
\* counting as 'info') are equal after lowercasing or one group lists both,
\* 0.3 when each is listed by a group but no group lists both, and 0.5 when
\* they differ and one of them is listed by no group.
C19_SeverityScore ==
    pc = "returned" =>
        LET a == NormalizeSeverity(call_args.grafana_severity)
            b == NormalizeSeverity(call_args.jsm_severity)
        IN /\ (a = b \/ InOneSeverityGroup(a, b)) => call_result.score = Scale
           /\ (InSomeSeverityGroup(a) /\ InSomeSeverityGroup(b) /\ ~InOneSeverityGroup(a, b))
                => call_result.score = (3 * Scale) \div 10
           /\ (a # b /\ ~(InSomeSeverityGroup(a) /\ InSomeSeverityGroup(b)))
                => call_result.score = Scale \div 2

\* ------------------------------------- JSMService.extract_alert_name_from_jsm

\* A message or description is the sequence of its words, which single
\* spaces separate; a tag 'key:value' is the record of its two parts. The
\* regular expressions are modelled by what they capture on these words.

\* the characters of a word that lines 160 and 161 capture from its start,
\* [A-Za-z0-9\-_]+
IdentPrefix(word) ==
    IF word \in {"CPUHighUsage", "pod-not-healthy", "CPU", "DiskFull", "-", "cpu-alias"}
    THEN word
    ELSE IF word = "Alert:" THEN "Alert"
    ELSE ""

\* the characters line 159 captures from the start of a word, [^\s\n*]+
NonStarPrefix(word) == IF word = "*Summary*:" THEN "" ELSE word

\* len(name) on the names the patterns can capture
NameLength(name) ==
    IF name \in {"", "-"} THEN Len(name)
    ELSE IF name = "CPU" THEN 3
    ELSE 5 + Len(name)

HasLetter(name) == name \notin {"", "-", "7"}

IsGenericName(name) == name \in {"Alert", "alert", "error", "warning", "info"}

\* _is_valid_alert_name (lines 359-380)
is_valid_alert_name(name) ==
    /\ name # ""
    /\ NameLength(name) >= 3
    /\ ~IsGenericName(name)
    /\ HasLetter(name)

IsSummaryKeyword(word) == word = "*Summary*:"

IsAlertKeyword(word) == word = "Alert:"

IsGrafanaKeyword(word) == word = "[Grafana]:"

IsDescKeyword(word) == word \in {"Alert:", "AlertName:", "Rule:"}

\* the keyword a pattern 'keyword\s*(capture)' looks for, and its capture
\* from the word after it
IsKeyword(pattern, word) ==
    IF pattern = "summary" THEN IsSummaryKeyword(word)
    ELSE IF pattern = "alert" THEN IsAlertKeyword(word)
    ELSE IsDescKeyword(word)

Capture(pattern, word) ==
    IF pattern = "summary" THEN NonStarPrefix(word) ELSE IdentPrefix(word)

\* the first match of such a pattern in the words from i on
RECURSIVE CaptureAfter(_, _, _)
CaptureAfter(words, i, pattern) ==
    IF i >= Len(words) THEN ""
    ELSE IF IsKeyword(pattern, words[i]) /\ Capture(pattern, words[i + 1]) # ""
         THEN Capture(pattern, words[i + 1])
    ELSE CaptureAfter(words, i + 1, pattern)

\* re.search of grafana_patterns[n] (lines 157-162): its capture, "" for
\* no match
GrafanaPatternCapture(message, n) ==
    IF n = 1 THEN
        IF Len(message) >= 3 /\ IsGrafanaKeyword(message[1])
               /\ IsSummaryKeyword(message[2])
        THEN message[3] ELSE ""
    ELSE IF n = 2 THEN CaptureAfter(message, 1, "summary")
    ELSE IF n = 3 THEN CaptureAfter(message, 1, "alert")
    ELSE IF message # <<>> /\ NameLength(IdentPrefix(message[1])) >= 3
         THEN IdentPrefix(message[1])
    ELSE ""

\* what k8s_patterns[n] (lines 173-178) captures in one word
K8sCapture(word, n) == IF n = 1 /\ word = "pod-not-healthy" THEN word ELSE ""

RECURSIVE K8sPatternCapture(_, _, _)
K8sPatternCapture(message, n, i) ==
    IF i > Len(message) THEN ""
    ELSE IF K8sCapture(message[i], n) # "" THEN K8sCapture(message[i], n)
    ELSE K8sPatternCapture(message, n, i + 1)

\* the loop of lines 164-170 or 180-186 over 4 patterns: the first pattern
\* whose first match is a valid name
PatternCapture(message, list, n) ==
    IF list = "grafana" THEN GrafanaPatternCapture(message, n)
    ELSE K8sPatternCapture(message, n, 1)

RECURSIVE FirstValidCapture(_, _, _)
FirstValidCapture(message, list, n) ==
    IF n > 4 THEN ""
    ELSE IF is_valid_alert_name(PatternCapture(message, list, n))
         THEN PatternCapture(message, list, n)
    ELSE FirstValidCapture(message, list, n + 1)

\* strategy 1 (lines 144-151)
RECURSIVE NameFromTags(_, _)
NameFromTags(tags, i) ==
    IF i > Len(tags) THEN ""
    ELSE IF tags[i].key = "alertname" /\ is_valid_alert_name(tags[i].value)
         THEN tags[i].value
    ELSE NameFromTags(tags, i + 1)

\* strategy 4 (lines 194-207)
NameFromDescription(description) ==
    LET candidate == CaptureAfter(description, 1, "description")
    IN IF is_valid_alert_name(candidate) THEN candidate ELSE ""

\* "" stands for None
extract_alert_name_from_jsm(alert_data) ==
    LET from_tags == NameFromTags(alert_data.tags, 1)
        from_message == FirstValidCapture(alert_data.message, "grafana", 1)
        from_k8s == FirstValidCapture(alert_data.message, "k8s", 1)
        from_description == NameFromDescription(alert_data.description)
    IN IF from_tags # "" THEN from_tags
       ELSE IF from_message # "" THEN from_message
       ELSE IF from_k8s # "" THEN from_k8s
       ELSE IF is_valid_alert_name(alert_data.alias) THEN alert_data.alias
       ELSE IF from_description # "" THEN from_description
       ELSE IF alert_data.tinyId # "" THEN "jsm-alert-" \o alert_data.tinyId
       ELSE ""

MaxTextLen == 2

TextWords == {"CPU", "Alert:", "DiskFull", "*Summary*:"}

FreeTexts == UNION {[1..n -> TextWords] : n \in 0..MaxTextLen}

\* '[<source>] <Name> - <free text>'
SourcedMessages ==
    { <<"[prod/monitoring]", name, "-">> \o text :
        name \in {"CPUHighUsage", "pod-not-healthy"}, text \in FreeTexts }

ExtractNameInit ==
    /\ HelperRest
    /\ call_args \in [tags : {<<>>, <<[key |-> "cluster", value |-> "prod"]>>},
                      message : SourcedMessages,
                      alias : {"", "cpu-alias"},
                      description : {<<>>, <<"Rule:", "DiskFull">>},
                      tinyId : {"", "7"}]
    /\ call_result = <<>>

ExtractName ==
    /\ pc = "call"
    /\ pc' = "returned"
    /\ call_result' = [name |-> extract_alert_name_from_jsm(call_args)]
    /\ UNCHANGED <<call_args, trigger_vars, rate_vars, prometheus_vars, cron_vars, autoflush, db, sess, last_event,
                   cycles, human_actions, cycle_vars>>

SpecExtractName == ExtractNameInit /\ [][ExtractName]_vars

\* C20: for a record without alertname tag whose message is
\* '[<source>] <Name> - <free text>', <Name> being a valid alert name, the
\* extracted name is <Name>.
C20_NameFromSourcedMessage ==
    (pc = "returned" /\ is_valid_alert_name(call_args.message[2]))
        => call_result.name = call_args.message[2]

\* ------------------------------------------------ calculate_match_confidence

\* self.weights (lines 46-52), in hundredths
weights ==
    [name_similarity |-> 40, cluster_similarity |-> 25, severity_similarity |-> 15,
     temporal_similarity |-> 10, content_similarity |-> 10]

\* _calculate_name_similarity on the names of AlertNames and the fallback
\* name: their normalized forms are distinct, none contains another and they
\* share no word, so two different names get the SequenceMatcher ratio, which
\* is an input here
calculate_name_similarity(grafana_name, jsm_name, ratio) ==
    IF grafana_name = "" \/ jsm_name = "" THEN [score |-> 0, method |-> "missing_names"]
    ELSE IF grafana_name = jsm_name THEN [score |-> Scale, method |-> "exact_match"]
    ELSE [score |-> ratio, method |-> "sequence_match"]

\* _looks_like_cluster_name (lines 382-401) on the clusters of ClusterNames
looks_like_cluster_name(name) == name \in {"prod-east", "prod"}

\* the pattern of line 249 on a tag
TagClusterPattern(tag) == IF tag.value \in {"prod-east", "prod"} THEN tag.value ELSE ""

\* extract_cluster_from_jsm, strategy 1 (lines 229-254)
RECURSIVE ClusterFromTags(_, _)
ClusterFromTags(tags, i) ==
    IF i > Len(tags) THEN ""
    ELSE IF tags[i].key = "cluster" /\ looks_like_cluster_name(tags[i].value)
         THEN tags[i].value
    ELSE IF looks_like_cluster_name(TagClusterPattern(tags[i]))
         THEN TagClusterPattern(tags[i])
    ELSE ClusterFromTags(tags, i + 1)

\* the records scored here have no message and no entity, so strategies 2
\* and 3 find nothing
extract_cluster_from_jsm(alert_data) == ClusterFromTags(alert_data.tags, 1)

\* the clusters differ, neither contains the other: SequenceMatcher's ratio
\* is an input
calculate_cluster_similarity(grafana_cluster, jsm_cluster, ratio) ==
    IF jsm_cluster = "" THEN [score |-> Scale \div 2, method |-> "no_jsm_cluster"]
    ELSE IF grafana_cluster = "" THEN [score |-> (3 * Scale) \div 10, method |-> "no_grafana_cluster"]
    ELSE IF grafana_cluster = jsm_cluster THEN [score |-> Scale, method |-> "exact_match"]
    ELSE [score |-> ratio, method |-> "sequence_similarity"]

\* priority_mapping (lines 291-297)
priority_mapping ==
    [P1 |-> "critical", P2 |-> "warning", P3 |-> "info", P4 |-> "low", P5 |-> "info"]

\* extract_severity_from_jsm: no tag scored here contains a severity keyword
\* and there is no text, so without a known priority the default is returned
extract_severity_from_jsm(alert_data) ==
    IF alert_data.priority \in DOMAIN priority_mapping
    THEN priority_mapping[alert_data.priority]
    ELSE "info"

Abs(n) == IF n < 0 THEN -n ELSE n

\* _calculate_temporal_similarity; times are in minutes, 0 is a missing one
calculate_temporal_similarity(grafana_time, jsm_time) ==
    LET time_diff == Abs(grafana_time - jsm_time)
    IN IF grafana_time = 0 \/ jsm_time = 0 THEN Scale \div 2
       ELSE IF time_diff <= 2 THEN Scale
       ELSE IF time_diff <= 5 THEN (9 * Scale) \div 10
       ELSE IF time_diff <= 15 THEN (7 * Scale) \div 10
       ELSE IF time_diff <= 30 THEN Scale \div 2
       ELSE IF time_diff <= 60 THEN (3 * Scale) \div 10
       ELSE Scale \div 10

\* calculate_match_confidence: the confidence is the weighted sum, kept in
\* whole hundredths; the thresholds are whole hundredths, so every comparison
\* with one is that of the exact sum
calculate_match_confidence(grafana_alert, jsm_alert, ratios) ==
    LET name == calculate_name_similarity(grafana_alert.alertname,
                    extract_alert_name_from_jsm(jsm_alert), ratios.name_ratio)
        cluster == calculate_cluster_similarity(grafana_alert.cluster,
                    extract_cluster_from_jsm(jsm_alert), ratios.cluster_ratio)
        severity == calculate_severity_similarity(
                    IF grafana_alert.severity = "" THEN "info" ELSE grafana_alert.severity,
                    extract_severity_from_jsm(jsm_alert))
        temporal == calculate_temporal_similarity(grafana_alert.startsAt, jsm_alert.createdAt)
        total == name.score * weights.name_similarity
                 + cluster.score * weights.cluster_similarity
                 + severity.score * weights.severity_similarity
                 + temporal * weights.temporal_similarity
                 + ratios.content_score * weights.content_similarity
    IN ScoreResult(total \div 100, name.method, cluster.method)

AlertNames == {"CPUHighUsage", "DiskFull"}

ClusterNames == {"prod-east", "alpha"}

\* the tags of a JSM alert: 'alertname:<name>' and 'cluster:<cluster>', each
\* left out when empty
JsmTags(name, cluster) ==
    (IF name = "" THEN <<>> ELSE <<[key |-> "alertname", value |-> name]>>)
        \o (IF cluster = "" THEN <<>> ELSE <<[key |-> "cluster", value |-> cluster]>>)

ScoredGrafanaAlerts ==
    [alertname : AlertNames, cluster : ClusterNames \cup {""},
     severity : {"critical", "low", "info", ""}, startsAt : {10}]

ScoredJsmAlerts ==
    { [tags |-> JsmTags(name, cluster), message |-> <<>>, alias |-> "",
       description |-> <<>>, tinyId |-> "7", priority |-> priority,
       createdAt |-> createdAt] :
        name \in AlertNames \cup {""}, cluster \in ClusterNames \cup {""},
        priority \in {"P1", "P3", "P4", ""}, createdAt \in {0, 10, 12, 13, 30} }

\* what difflib and the content scorer return, in hundredths
LibraryRatios ==
    [name_ratio : {20, 60}, cluster_ratio : {20, 60}, content_score : {0, 20, 50, 100}]

ConfidenceInit ==
    /\ HelperRest
    /\ call_args \in [grafana : ScoredGrafanaAlerts, jsm : ScoredJsmAlerts,
                      ratios : LibraryRatios]
    /\ call_result = <<>>

\* calculate_match_confidence and the classification of its result
ScorePair ==
    /\ pc = "call"
    /\ pc' = "returned"
    /\ LET scored == calculate_match_confidence(call_args.grafana, call_args.jsm,
                                                call_args.ratios)
       IN call_result' = [confidence |-> scored.confidence,
                          match_type |-> determine_match_type(scored.confidence, scored)]
    /\ UNCHANGED <<call_args, trigger_vars, rate_vars, prometheus_vars, cron_vars, autoflush, db, sess, last_event,
                   cycles, human_actions, cycle_vars>>

SpecConfidence == ConfidenceInit /\ [][ScorePair]_vars

TagValues(tags, key) == {tags[i].value : i \in {k \in 1..Len(tags) : tags[k].key = key}}

\* the pair of the claim: alertname tag equal to the Grafana name, the same
\* cluster on both sides, severities equal or in one group, at most 2 minutes
SameAlertPair(grafana_alert, jsm_alert) ==
    /\ TagValues(jsm_alert.tags, "alertname") = {grafana_alert.alertname}
    /\ TagValues(jsm_alert.tags, "cluster") = {grafana_alert.cluster}
    /\ LET a == NormalizeSeverity(grafana_alert.severity)
           b == extract_severity_from_jsm(jsm_alert)
       IN a = b \/ InOneSeverityGroup(a, b)
    /\ grafana_alert.startsAt # 0 /\ jsm_alert.createdAt # 0
    /\ Abs(grafana_alert.startsAt - jsm_alert.createdAt) <= 2

\* C18: a pair with the alertname tag equal to the Grafana name, the same
\* cluster, severities of one group and timestamps at most 2 minutes apart has
\* a confidence of at least 0.85, whatever the content score, and is
\* classified high_confidence.
C18_ExactPairHighConfidence ==
    (pc = "returned" /\ SameAlertPair(call_args.grafana, call_args.jsm))
        => /\ call_result.confidence >= (85 * Scale) \div 100
           /\ call_result.match_type = "high_confidence"

\* ---------------------------------------------------------- claims C21-C25

AcknowledgeStep ==
    pc = "idle" /\ last_event' = "acknowledged" /\ human_actions' = human_actions + 1

ResolveStep ==
    pc = "idle" /\ last_event' = "resolved" /\ human_actions' = human_actions + 1

\* C21: whatever the remote acknowledge or close call does, the selected
\* record is committed with its local human-action fields (acknowledged_by
\* and acknowledged_at, or resolved_by, resolved_at and status resolved); only
\* the remote-side stamp depends on the remote result.
C21_RemoteFailureKeepsLocalUpdate ==
    [][/\ AcknowledgeStep =>
            \E k \in DOMAIN db :
                /\ db'[k].acknowledged_by = HumanUser
                /\ db'[k].acknowledged_at = "human_time"
                /\ \A other \in DOMAIN db \ {k} : db'[other] = db[other]
       /\ ResolveStep =>
            \E k \in DOMAIN db :
                /\ db'[k].resolved_by = HumanUser
                /\ db'[k].resolved_at = "human_time"
                /\ db'[k].grafana_status = "resolved"
                /\ \A other \in DOMAIN db \ {k} : db'[other] = db[other]]_vars

\* AlertService.get_alerts: the keys of the rows the query selects (the
\* order and the page are left out)
get_alerts(table) == { k \in DOMAIN table : table[k].jsm_alert_id # 0 }

JsmOnlyKeys == { "jsm-only-" \o ToString(j) : j \in 1..NumIncidents }

GrafanaKeys == { GrafanaAlert(a).alert_id : a \in 1..NumAlerts }

\* C22: after a committed cycle the listing holds only Grafana alerts matched
\* with a JSM alert: no incident-only row and no row of an unmatched Grafana
\* alert.
C22_ListingOnlyMatched ==
    Committed =>
        \A k \in get_alerts(db) :
            /\ k \notin JsmOnlyKeys
            /\ db[k].match_type \notin {"none", "jsm_only", Null}

\* C24: every persisted row has a non-empty key, the key of a Grafana alert
\* or 'jsm-only-<incident id>', and no two rows have the same key.
C24_KeyedRows ==
    /\ \A k \in DOMAIN db :
        /\ k # ""
        /\ db[k].alert_id = k
        /\ k \in GrafanaKeys \cup JsmOnlyKeys
        /\ k \in JsmOnlyKeys => db[k].jsm_alert_id # 0
    /\ \A k1, k2 \in DOMAIN db : db[k1].alert_id = db[k2].alert_id => k1 = k2

\* a committed table holding the row of a Grafana alert and an incident-only row
C24_Witness ==
    /\ Committed
    /\ DOMAIN db \cap GrafanaKeys # {}
    /\ DOMAIN db \cap JsmOnlyKeys # {}

\* C25: among the acceptable JSM alerts that tie for the confidence of the
\* assigned one, the assigned one comes first in the JSM list.
C25_TieFirstSeen ==
    pc = "match_done" =>
        \A i \in 1..Len(matched_alerts) :
            HasMatch(matched_alerts[i]) =>
                \A j \in Acceptable(i) :
                    scores[i][j].confidence = matched_alerts[i].match_confidence
                        => matched_alerts[i].jsm_index <= j

\* an alert took the first of two unclaimed JSM alerts with the same confidence
C25_Witness ==
    /\ pc = "match_done"
    /\ \E i \in 1..Len(matched_alerts) :
        /\ HasMatch(matched_alerts[i])
        /\ matched_alerts[i].jsm_index = 1
        /\ 2 \in Acceptable(i)
        /\ scores[i][2].confidence = matched_alerts[i].match_confidence

\* ---------------------------------------------------------- claims C26-C29

MarkResolvedStep == pc = "mark_resolved" /\ pc' = "update_orphaned"

ClosedByCycle(log, k) == \E n \in 1..Len(log) : log[n].alert_id = k /\ log[n].result = "ok"

\* C26: the auto-resolve step leaves resolved_by and resolved_at of a record
\* whose resolved_by is set as they are, whatever the close call returns, and
\* stamps a record without resolved_by when its close call succeeded.
C26_AutoResolveKeepsResolver ==
    [][ (MarkResolvedStep /\ ~sess.broken) =>
          \A k \in DOMAIN sess.objs :
            /\ sess.objs[k].resolved_by \notin {Null, ""} =>
                 /\ sess'.objs[k].resolved_by = sess.objs[k].resolved_by
                 /\ sess'.objs[k].resolved_at = sess.objs[k].resolved_at
            /\ (sess.objs[k].resolved_by \in {Null, ""} /\ ClosedByCycle(close_log', k)) =>
                 /\ sess'.objs[k].resolved_by = "Auto-resolved (Grafana)"
                 /\ sess'.objs[k].resolved_at = "auto_resolved_at" ]_vars

\* the auto-resolve step closed the JSM alert of a record a human had resolved
C26_Witness ==
    /\ pc = "update_orphaned"
    /\ \E k \in DOMAIN sess.objs :
        /\ ClosedByCycle(close_log, k)
        /\ sess.objs[k].resolved_by = HumanUser
        /\ sess.objs[k].resolved_at = "human_time"
        /\ sess.objs[k].jsm_status = "closed"

\* C27: a record whose JSM alert the auto-close of the cycle closed is
\* committed with jsm_status 'closed'.
C27_AutoClosedStaysClosed ==
    [][ CommitStep =>
          \A k \in DOMAIN db' :
            ClosedByCycle(close_log, k) => db'[k].jsm_status = "closed" ]_vars

\* C28: in a committed table at most one record carries a given JSM alert id.
C28_OneRecordPerIncident ==
    Committed => \A j \in 1..NumIncidents : Cardinality(CarriersOf(db, j)) <= 1

\* C29: a cycle whose Grafana fetch failed marks no active record resolved and
\* makes no close call.
C29_FailedFetchResolvesNothing ==
    [][ (MarkResolvedStep /\ last_event = "sync_degraded") =>
          /\ close_log' = <<>>
          /\ \A k \in DOMAIN sess.objs :
               sess.objs[k].grafana_status = "active"
                   => sess'.objs[k].grafana_status = "active" ]_vars

\* ------------------------------------------------------ PrometheusService

ENABLE_PROMETHEUS_SYNC == TRUE

\* PrometheusService.__init__: the base urls of settings.PROMETHEUS_API_URLS
api_urls == [i \in 1..NumEndpoints |-> "http://prometheus" \o ToString(i) \o ":9090"]

ApiUrlSet == { api_urls[i] : i \in 1..NumEndpoints }

\* what the probe of an endpoint finds: "ok" is a 200 answer of the expected
\* structure on one of the two API paths, "down" anything else (a timeout, a
\* connection error, another status, another body, another exception)
ProbeResults == {"ok", "down"}

\* what the request of _fetch_from_healthy_endpoint does: it raises (the
\* function logs and re-raises), or the answer parses to no alert or to alerts
FetchResults == {"error", "none", "alerts"}

PrometheusAlert(base_url) ==
    [alert_id |-> "prometheus-alert-" \o base_url, source_instance |-> base_url]

FetchedAlerts(base_url, fetched) ==
    IF fetched = "alerts" THEN <<PrometheusAlert(base_url)>> ELSE <<>>

\* _check_single_endpoint_health: the endpoint's info is stored under base_url
check_single_endpoint_health(health, base_url, probe) ==
    [u \in DOMAIN health \cup {base_url} |->
        IF u = base_url THEN [base_url |-> base_url, healthy |-> probe = "ok"]
        ELSE health[u]]

RECURSIVE CheckEndpoints(_, _, _)
\* the loop of _check_endpoint_health from api_urls[i] on
CheckEndpoints(health, i, probes) ==
    IF i > NumEndpoints THEN health
    ELSE CheckEndpoints(check_single_endpoint_health(health, api_urls[i], probes[api_urls[i]]),
                        i + 1, probes)

\* _check_endpoint_health; interval_elapsed: health_check_interval has passed
\* since last_health_check
check_endpoint_health(service, interval_elapsed, probes) ==
    IF service.last_health_check # Null /\ ~interval_elapsed THEN service
    ELSE [endpoint_health |-> CheckEndpoints(service.endpoint_health, 1, probes),
          last_health_check |-> "current_time"]

\* the endpoints asked whatever their health
get_configured_endpoints(health) ==
    LET Known(u) == u \in DOMAIN health IN SelectSeq(api_urls, Known)

\* _get_healthy_endpoints: the dict keeps the order the urls were stored in,
\* the order of api_urls
get_healthy_endpoints(health) ==
    LET Healthy(u) == u \in DOMAIN health /\ health[u].healthy IN SelectSeq(api_urls, Healthy)

\* _mark_endpoint_unhealthy
mark_endpoint_unhealthy(health, base_url) ==
    IF base_url \in DOMAIN health THEN [health EXCEPT ![base_url].healthy = FALSE]
    ELSE health

\* the except of the fetch loop: the endpoint is marked and the loop goes on
OnFetchError(st, base_url) ==
    [st EXCEPT !.endpoint_health = mark_endpoint_unhealthy(@, base_url)]

RECURSIVE FetchLoop(_, _, _, _)
\* the fetch loop from healthy_endpoints[n] on; st holds endpoint_health,
\* all_alerts, requested (the endpoints a fetch request went to, in order) and
\* raised (an exception left the loop)
FetchLoop(healthy_endpoints, n, fetches, st) ==
    IF n > Len(healthy_endpoints) \/ st.raised THEN st
    ELSE LET base_url == healthy_endpoints[n]
             sent == [st EXCEPT !.requested = Append(@, base_url)]
             next == IF fetches[base_url] = "error" THEN OnFetchError(sent, base_url)
                     ELSE [sent EXCEPT !.all_alerts =
                                @ \o FetchedAlerts(base_url, fetches[base_url])]
         IN FetchLoop(healthy_endpoints, n + 1, fetches, next)

\* PrometheusService.get_active_alerts on the service's state
prometheus_get_active_alerts(service, interval_elapsed, probes, fetches) ==
    LET start == [endpoint_health |-> service.endpoint_health,
                  last_health_check |-> service.last_health_check,
                  all_alerts |-> <<>>, requested |-> <<>>, raised |-> FALSE]
    IN IF ~ENABLE_PROMETHEUS_SYNC \/ Len(api_urls) = 0 THEN start
       ELSE LET checked == check_endpoint_health(service, interval_elapsed, probes)
                healthy_endpoints == get_healthy_endpoints(checked.endpoint_health)
            IN FetchLoop(healthy_endpoints, 1, fetches,
                         [start EXCEPT !.endpoint_health = checked.endpoint_health,
                                       !.last_health_check = checked.last_health_check])

PrometheusInit == HelperRest /\ NoCall

SeqRange(seq) == { seq[n] : n \in 1..Len(seq) }

\* one call of get_active_alerts on the long-lived service; the inputs are
\* whether the health check is due, what each probe of a due check finds and
\* what the request to each endpoint then recorded healthy does
PrometheusFetch ==
    /\ pc \in {"call", "returned"}
    /\ pc' = "returned"
    /\ \E interval_elapsed \in IF last_health_check = Null THEN {TRUE} ELSE BOOLEAN :
       \E probes \in IF interval_elapsed THEN [ApiUrlSet -> ProbeResults] ELSE {<<>>} :
       \E fetches \in
            [SeqRange(get_healthy_endpoints(
                check_endpoint_health([endpoint_health |-> endpoint_health,
                                       last_health_check |-> last_health_check],
                                      interval_elapsed, probes).endpoint_health))
                -> FetchResults] :
        LET r == prometheus_get_active_alerts(
                    [endpoint_health |-> endpoint_health,
                     last_health_check |-> last_health_check],
                    interval_elapsed, probes, fetches)
        IN /\ endpoint_health' = r.endpoint_health
           /\ last_health_check' = r.last_health_check
           /\ call_args' = [interval_elapsed |-> interval_elapsed, probes |-> probes,
                            fetches |-> fetches]
           /\ call_result' = [all_alerts |-> r.all_alerts, requested |-> r.requested,
                              raised |-> r.raised]
    /\ UNCHANGED <<trigger_vars, rate_vars, cron_vars, autoflush, db, sess, last_event,
                   cycles, human_actions, cycle_vars>>

SpecPrometheus == PrometheusInit /\ [][PrometheusFetch]_vars

\* C23: a call of get_active_alerts does not raise; fetch requests go to
\* exactly the endpoints recorded healthy when the fetch starts (after the
\* periodic health check, when one is due); an endpoint whose fetch fails is
\* recorded unhealthy; and the alerts returned are those of every requested
\* endpoint whose fetch succeeded.
C23_FetchSkipsUnhealthy ==
    [][ LET RecordedHealthy(u) == IF call_args'.interval_elapsed
                                  THEN call_args'.probes[u] = "ok"
                                  ELSE endpoint_health[u].healthy
            requested == SeqRange(call_result'.requested)
        IN /\ ~call_result'.raised
           /\ requested = { u \in ApiUrlSet : RecordedHealthy(u) }
           /\ \A u \in requested :
                call_args'.fetches[u] = "error" => ~endpoint_health'[u].healthy
           /\ \A u \in ApiUrlSet :
                PrometheusAlert(u) \in SeqRange(call_result'.all_alerts)
                    <=> (u \in requested /\ call_args'.fetches[u] = "alerts") ]_vars

\* a call skipped an endpoint recorded unhealthy, lost the request to a second
\* endpoint and returned the alerts of a third
C23_Witness ==
    /\ pc = "returned"
    /\ \E failed, other, skipped \in ApiUrlSet :
        /\ failed \in SeqRange(call_result.requested)
        /\ call_args.fetches[failed] = "error"
        /\ ~endpoint_health[failed].healthy
        /\ other \in SeqRange(call_result.requested)
        /\ PrometheusAlert(other) \in SeqRange(call_result.all_alerts)
        /\ skipped \notin SeqRange(call_result.requested)
        /\ ~call_args.interval_elapsed

\* ------------------------------------------------- cron configurations

JobNames == { "sync" \o ToString(i) : i \in 1..NumJobNames }

CronExpressions == { "*/" \o ToString(i) \o " * * * *" : i \in 1..NumCronExpressions }

\* a field of the update request: <<>> when the request does not set it
\* (exclude_unset leaves it out), <<value>> when it does
OptionalField(values) == {<<>>} \cup { <<v>> : v \in values }

\* f"job_{job_name}"
JobId(job_name) == "job_" \o job_name

\* SchedulerService._add_job: add_job with replace_existing=True
add_job(jobs, config) ==
    [id \in DOMAIN jobs \cup {JobId(config.job_name)} |->
        IF id = JobId(config.job_name) THEN config.cron_expression ELSE jobs[id]]

\* SchedulerService.update_job: modify_job changes the trigger of the job; for
\* an id the scheduler does not hold it raises JobLookupError, which the
\* except logs
update_job(jobs, job_name, cron_expression) ==
    IF JobId(job_name) \in DOMAIN jobs
    THEN [jobs EXCEPT ![JobId(job_name)] = cron_expression]
    ELSE jobs

\* SchedulerService.remove_job (JobLookupError logged likewise)
remove_job(jobs, job_name) ==
    [id \in DOMAIN jobs \ {JobId(job_name)} |-> jobs[id]]

\* the table is empty and the scheduler of the startup has loaded its jobs
CronInit == HelperRest /\ NoCall

\* POST /cron: the row is committed (a second row of the same job_name fails
\* the unique constraint and changes nothing), then the job is added if the
\* row is enabled
CreateCronConfig ==
    /\ \E job_name \in JobNames \ DOMAIN cron_configs,
          cron_expression \in CronExpressions, is_enabled \in BOOLEAN :
        LET db_config == [job_name |-> job_name, cron_expression |-> cron_expression,
                          is_enabled |-> is_enabled]
        IN /\ cron_configs' = [n \in DOMAIN cron_configs \cup {job_name} |->
                                  IF n = job_name THEN db_config ELSE cron_configs[n]]
           /\ scheduler_jobs' = IF db_config.is_enabled
                                THEN add_job(scheduler_jobs, db_config)
                                ELSE scheduler_jobs
    /\ UNCHANGED <<sync_vars, trigger_vars, rate_vars, pure_vars, prometheus_vars>>

\* PUT /cron/{config_id}: the set fields are written and committed, then the
\* job is updated if the row is enabled and removed if it is not
UpdateCronConfig ==
    /\ \E job_name \in DOMAIN cron_configs,
          cron_expression \in OptionalField(CronExpressions),
          is_enabled \in OptionalField(BOOLEAN) :
        LET row == cron_configs[job_name]
            db_config ==
                [job_name |-> job_name,
                 cron_expression |-> IF Len(cron_expression) = 0 THEN row.cron_expression
                                     ELSE cron_expression[1],
                 is_enabled |-> IF Len(is_enabled) = 0 THEN row.is_enabled
                                ELSE is_enabled[1]]
        IN /\ cron_configs' = [cron_configs EXCEPT ![job_name] = db_config]
           /\ scheduler_jobs' =
                IF db_config.is_enabled
                THEN update_job(scheduler_jobs, db_config.job_name, db_config.cron_expression)
                ELSE remove_job(scheduler_jobs, db_config.job_name)
    /\ UNCHANGED <<sync_vars, trigger_vars, rate_vars, pure_vars, prometheus_vars>>

CronNext == CreateCronConfig \/ UpdateCronConfig

SpecCron == CronInit /\ [][CronNext]_vars

\* C30: the scheduler holds the job of a configuration exactly when the
\* configuration is enabled, and the job's trigger is the configuration's
\* cron expression.
C30_JobIffEnabled ==
    \A job_name \in DOMAIN cron_configs :
        /\ cron_configs[job_name].is_enabled <=> JobId(job_name) \in DOMAIN scheduler_jobs
        /\ JobId(job_name) \in DOMAIN scheduler_jobs
            => scheduler_jobs[JobId(job_name)] = cron_configs[job_name].cron_expression
====
